---- MODULE Spec2Model ----
(***************************************************************************)
(* Model of the pico-examples telemetry uplink                             *)
(* (pico_w/adafruit_io_bmp280/adafruit_io_bmp280.c) and of the HTTP client *)
(* example (pico_w/wifi/http_client/picow_http_client.c).                  *)
(*                                                                         *)
(* The uplink is a callback-driven state machine over one altcp/TLS        *)
(* handle.  HTTP_POST_STATE_T objects live on the heap: the model keeps    *)
(* the heap cells by address, so that a callback whose argument is a       *)
(* dangling pointer acts on whatever the cell holds at that time (the old  *)
(* contents, or a later state allocated at the same address).              *)
(*                                                                         *)
(* Four further parts stand beside the uplink (Spec, SpecLive): the HTTP   *)
(* client main (SpecClient), the sensor loop of main with the BMP280       *)
(* compensation functions in 32-bit arithmetic (SpecMain), and the buffer  *)
(* handling of http_post_recv for fragments of any length (SpecRecv), and  *)
(* the NTP synchronisation of the HTTP client example (SpecNtp).  The card *)
(* transceive of spi/rc522_spi/rc522_spi.c is SpecCard.                    *)
(***************************************************************************)
EXTENDS Integers, Sequences, FiniteSets, TLC

\* ---------------------------------------------------------------- bounds
MaxUplinks == 2          \* calls of send_to_adafruit_io in one run
MaxLiveUplinks == 1      \* the same, in the runs checked for liveness
HeapCells == 2           \* heap addresses calloc can hand out for a state

\* ------------------------------------------------------ program constants
PICO_ERROR_TIMEOUT == -1
PICO_ERROR_GENERIC == -2
RequestBufSize == 512    \* char http_request[512]
RecvBufSize == 512       \* char buf[512] in http_post_recv
UplinkTimeout == 15      \* state->timeout = 15
FmtFixedLen == 143       \* literal characters of the request format string
JsonFixedLen == 12       \* literal characters of {"value":"%.2f"}
UsernameLen == 13        \* strlen(ADAFRUIT_IO_USERNAME)
KeyLen == 8              \* strlen(ADAFRUIT_IO_KEY)
StatusPrefixLen == 12    \* strncmp(buf, "HTTP/1.1 200", 12)

NULL == 0
Uplinks == 1..MaxUplinks
Addrs == 1..HeapCells
Min(a, b) == IF a < b THEN a ELSE b

\* ------------------------------------------------------------------ state
VARIABLES
    pc,          \* position of main / send_to_adafruit_io
    cur,         \* number of send_to_adafruit_io calls started so far
    tls_config,  \* the global static tls_config (NULL or a config id)
    st,          \* heap cells holding HTTP_POST_STATE_T, by address
    ad,          \* address of the state of uplink u (NULL: none allocated)
    hnd,         \* transport handles (altcp pcb), one per uplink at most
    dns,         \* pending name resolution of uplink u
    ret,         \* return value of the latest send_to_adafruit_io (none: running)
    obs,         \* history of the uplink in progress (observation only)
    net_silent,  \* the network has gone silent: no progress callback arrives
    c_pc,        \* HTTP client example: position of main
    c_req,       \* HTTP client example: req1 and req2 (EXAMPLE_HTTP_REQUEST_T)
    c_fly,       \* HTTP client example: the requests handed to the stack
    c_cfg,       \* HTTP client example: the TLS config of the https requests
    c_total,     \* HTTP client example: the local variable result of main
    m_pc,        \* telemetry main: position in the sensor loop
    params,      \* telemetry main: struct bmp280_calib_param params
    raw,         \* telemetry main: raw_temperature and raw_pressure
    reading,     \* telemetry main: the compensated values of this iteration
    led_state,   \* telemetry main: bool led_state
    send_count,  \* telemetry main: int send_count
    sent,        \* telemetry main: temp_sent and pressure_sent
    m_iter,      \* what the running iteration has done (observation only)
    m_log,       \* what the finished iterations did (observation only)
    m_first,     \* the first conversion of the run (observation only)
    rcv,         \* http_post_recv on its own: the fragment and what was done
    ntp,         \* HTTP client example: sync_time_with_ntp and its socket
    card         \* RC522 example: rc522_to_card and its caller

tvars == <<pc, cur, tls_config, st, ad, hnd, dns, ret, obs, net_silent>>
cvars == <<c_pc, c_req, c_fly, c_cfg, c_total>>
mvars == <<m_pc, params, raw, reading, led_state, send_count, sent, m_iter,
           m_log, m_first>>
vars == <<pc, cur, tls_config, st, ad, hnd, dns, ret, obs, net_silent,
          c_pc, c_req, c_fly, c_cfg, c_total,
          m_pc, params, raw, reading, led_state, send_count, sent, m_iter,
          m_log, m_first, rcv, ntp, card>>

\* ------------------------------------------------------- status line text
NUL == "\\0"
HTTP11 == <<"H", "T", "T", "P", "/", "1", ".", "1", " ">>
Lit200 == HTTP11 \o <<"2", "0", "0">>
Lit201 == HTTP11 \o <<"2", "0", "1">>
Lit401 == HTTP11 \o <<"4", "0", "1">>
Lit404 == HTTP11 \o <<"4", "0", "4">>

\* response fragments the transport may deliver (leading bytes)
Fragments ==
    { Lit200 \o <<" ", "O", "K">>,
      Lit201,
      HTTP11 \o <<"2", "0", "4", " ">>,
      Lit401 \o <<" ">>,
      Lit404,
      << >> }

\* what the recv callback is handed: a pbuf, or a null pbuf at end of stream
Deliveries ==
    {[null |-> FALSE, data |-> f] : f \in Fragments}
        \cup {[null |-> TRUE, data |-> << >>]}

At(s, i) == IF i <= Len(s) THEN s[i] ELSE NUL

\* strncmp(a, b, n) == 0: equal up to n characters or up to a common NUL
StrNEq(a, b, n) ==
    \A i \in 1..n : (\A j \in 1..(i - 1) : At(a, j) # NUL) => At(a, i) = At(b, i)

\* a copy that leaves no room for the terminator
CopyPartial_WholeBuffer(p) == SubSeq(p, 1, Min(Len(p), RecvBufSize))

\* pbuf_copy_partial into buf[512] and termination: at most 511 bytes kept
CopyPartial(p) == SubSeq(p, 1, Min(Len(p), RecvBufSize - 1))

\* the branch http_post_recv takes for a non-empty fragment
Classify(p) ==
    LET buf == CopyPartial(p) IN
    IF StrNEq(buf, Lit200, StatusPrefixLen) \/ StrNEq(buf, Lit201, StatusPrefixLen)
    THEN "Success"
    ELSE IF StrNEq(buf, Lit401, StatusPrefixLen) THEN "AuthFailure"
    ELSE IF StrNEq(buf, Lit404, StatusPrefixLen) THEN "NotFound"
    ELSE "UnexpectedStatus"

\* what the branch writes to state->error (unchanged for an unexpected status)
ErrorAfterClass(c, old) ==
    CASE c = "Success" -> 0
      [] c = "AuthFailure" -> PICO_ERROR_GENERIC
      [] c = "NotFound" -> PICO_ERROR_GENERIC
      [] OTHER -> old

\* ------------------------------------------------------- request composing
\* snprintf return values: the length the text would have
JsonLen(numLen) == JsonFixedLen + numLen
Digits(n) == IF n < 10 THEN 1 ELSE IF n < 100 THEN 2 ELSE 3
ReqLen(feedLen, numLen) ==
    FmtFixedLen + UsernameLen + feedLen + KeyLen
        + Digits(JsonLen(numLen)) + JsonLen(numLen)

FeedLens == {11, 400}         \* "bmp280-temp", an oversized key
\* feed keys around the capacity of the buffer: requests of 194, 511 and 512
EdgeFeedLens == {11, 328, 329}
NumLens == {5}                \* "25.08"

\* ---------------------------------------------------------- initial values
FreshState == [alloc |-> "none", owner |-> 0, pcb |-> NULL, complete |-> FALSE,
               error |-> 0, timeout |-> 0, doneError |-> 0, doneCount |-> "never"]

NoHandle == [status |-> "none", phase |-> "new", arg |-> NULL, cfg |-> NULL,
             poll_cb |-> FALSE, poll_interval |-> 0, recv_cb |-> FALSE,
             err_cb |-> FALSE, conn_cb |-> FALSE,
             relUse |-> FALSE, calls |-> << >>]

\* who: the uplink observed; open: it has not returned yet
NoObs == [who |-> 0, open |-> FALSE,
          dnsFail |-> FALSE, connFail |-> FALSE, writeFail |-> FALSE,
          connects |-> "never", written |-> "never", mix |-> "none", cls |-> "None",
          last |-> << >>, eos |-> FALSE, timedOut |-> FALSE,
          req_len |-> 0, reject |-> "none", frees |-> "never"]

\* http_post_recv on its own: the fragments it is handed are a status line
\* (or other leading bytes) followed by filler up to the total length
MaxFragments == 2        \* fragments delivered in one run
Filler == "x"
TotalLengths == {0, 12, 13, 511, 512, 513, 1460, 65535}
Pbuf(head, tot_len) ==
    [i \in 1..tot_len |-> IF i <= Len(head) THEN head[i] ELSE Filler]
\* what the non-null branch does with the pbuf p besides classifying it:
\* the bytes stored in buf, the index of the terminator, the amount
\* acknowledged with altcp_recved
BufferUse(p) ==
    [copied |-> Len(CopyPartial(p)),
     terminator |-> Len(CopyPartial(p)),
     acked |-> Len(p)]
NothingReceived ==
    [n |-> 0, head |-> << >>, tot_len |-> 0, copied |-> 0, terminator |-> 0,
     acked |-> 0, cls |-> "None", before |-> 0, error |-> 0]

\* HTTP client example: the six requests main makes, in program order
\* (sync 1, sync 2, async on req1, async on req2, https sync 1, https sync 2)
Requests == 1..6
NoRequest == [complete |-> FALSE, result |-> 0, tls_config |-> NULL]
NotStarted == [s |-> "none", req |-> 0, cfg |-> NULL, code |-> 0]

\* ------------------------------------------------------ 32-bit arithmetic
\* A 32-bit word is the pair <<hi, lo>> of its 16-bit halves; int32_t and
\* uint32_t share the representation (two's complement), and every operation
\* wraps modulo 2^32 as the machine does.
Half == 2^16
Word(n) == <<(n \div Half) % Half, n % Half>>
Signed(w) == IF w[1] >= 2^15 THEN (w[1] - Half) * Half + w[2]
                             ELSE w[1] * Half + w[2]
Zero32 == <<0, 0>>
Add32(x, y) ==
    LET lo == x[2] + y[2]
    IN  <<(x[1] + y[1] + (lo \div Half)) % Half, lo % Half>>
Sub32(x, y) ==
    LET lo == x[2] - y[2]
    IN  <<(x[1] - y[1] + (lo \div Half)) % Half, lo % Half>>
\* the low half of a product of two halves
MulLow(a, b) == ((a % 256) * b + (((a \div 256) * b) % 256) * 256) % Half
\* the full 32-bit product of two halves
MulFull(a, b) ==
    LET p1 == (a \div 256) * b
        p0 == (a % 256) * b
    IN  Add32(<<p1 \div 256, (p1 % 256) * 256>>, <<p0 \div Half, p0 % Half>>)
Mul32(x, y) ==
    LET ll == MulFull(x[2], y[2])
    IN  <<(ll[1] + MulLow(x[1], y[2]) + MulLow(x[2], y[1])) % Half, ll[2]>>
\* x << n
Shl32(x, n) == Mul32(x, Word(2^n))
\* x >> n on an int32_t rounds towards minus infinity (the sign is kept)
Asr32_TowardsZero(x, n) ==
    LET v == Signed(x)
    IN  Word(IF v < 0 THEN 0 - ((0 - v) \div 2^n) ELSE v \div 2^n)
Asr32(x, n) == Word(Signed(x) \div 2^n)

\* x >> n on a uint32_t, 0 < n < 16
Lsr32(x, n) == <<x[1] \div 2^n, (x[2] \div 2^n) + (x[1] % 2^n) * 2^(16 - n)>>
\* x < y on uint32_t
ULess(x, y) == x[1] < y[1] \/ (x[1] = y[1] /\ x[2] < y[2])
\* x / y on uint32_t: x = 2 * (x >> 1) + (x & 1), and x >> 1 and y are then
\* below 2^31.  A division by zero has no result: the all-ones word stands for
\* it here and the caller decides what the program sees.
UDiv32(x, y) ==
    IF y = Zero32 THEN <<Half - 1, Half - 1>>
    ELSE IF y[1] >= 2^15 THEN (IF ULess(x, y) THEN Zero32 ELSE <<0, 1>>)
    ELSE LET yv == Signed(y)
             xh == Signed(Lsr32(x, 1))
             q0 == Word(xh \div yv)
             r0 == xh % yv
         IN  Add32(Add32(q0, q0),
                   <<0, IF r0 >= yv - r0 - (x[2] % 2) THEN 1 ELSE 0>>)

\* ------------------------------------------------- BMP280 compensation
\* struct bmp280_calib_param, with the example values of the data sheet
DatasheetCalib ==
    [dig_t1 |-> 27504, dig_t2 |-> 26435, dig_t3 |-> -1000,
     dig_p1 |-> 36477, dig_p2 |-> -10685, dig_p3 |-> 3024, dig_p4 |-> 2855,
     dig_p5 |-> 140, dig_p6 |-> -7, dig_p7 |-> 15500, dig_p8 |-> -14600,
     dig_p9 |-> 6000]
\* the calibration bmp280_get_calib_params may read from the sensor
Calibs == {DatasheetCalib,
           [DatasheetCalib EXCEPT !.dig_p1 = 0],
           [DatasheetCalib EXCEPT !.dig_p1 = 1],
           [DatasheetCalib EXCEPT !.dig_t1 = 0, !.dig_t3 = 32767, !.dig_p9 = -32768]}
\* the 20-bit raw values bmp280_read_raw may deliver
RawTemperatures == {0, 519888, 2^20 - 1}
RawPressures == {0, 415148, 2^20 - 1}

\* Let(v, F) is F(v) with v computed once: a local variable of the C code
Let(v, F(_)) == CHOOSE r \in {F(a) : a \in {v}} : TRUE

bmp280_convert(temp, p) ==
    Let(Word(temp), LAMBDA t :
    Let(Asr32(Mul32(Sub32(Asr32(t, 3), Shl32(Word(p.dig_t1), 1)),
                    Word(p.dig_t2)), 11), LAMBDA var1 :
    Let(Sub32(Asr32(t, 4), Word(p.dig_t1)), LAMBDA d :
    Let(Asr32(Mul32(Asr32(Mul32(d, d), 12), Word(p.dig_t3)), 14), LAMBDA var2 :
    Signed(Add32(var1, var2))))))

bmp280_convert_temp(temp, p) ==
    Let(Word(bmp280_convert(temp, p)), LAMBDA t_fine :
    Signed(Asr32(Add32(Mul32(t_fine, Word(5)), Word(128)), 8)))

\* if (var1 == 0) return 0;
ZeroDivisor_Unguarded(var1) == FALSE
ZeroDivisor(var1) == var1 = Zero32

\* The result of bmp280_convert_pressure with what it did on the way:
\* divisor is var1 at the test, divided tells whether a division was executed.
\* v1a .. v1d and v2a .. v2d are the successive values of var1 and var2,
\* c0 .. c2 those of converted.
bmp280_convert_pressure(pressure, temp, p) ==
    Let(Word(bmp280_convert(temp, p)), LAMBDA t_fine :
    Let(Sub32(Asr32(t_fine, 1), Word(64000)), LAMBDA v1a :
    Let(Mul32(Asr32(v1a, 2), Asr32(v1a, 2)), LAMBDA sq :
    Let(Mul32(Asr32(sq, 11), Word(p.dig_p6)), LAMBDA v2a :
    Let(Add32(v2a, Shl32(Mul32(v1a, Word(p.dig_p5)), 1)), LAMBDA v2b :
    Let(Add32(Asr32(v2b, 2), Shl32(Word(p.dig_p4), 16)), LAMBDA v2c :
    Let(Asr32(Add32(Asr32(Mul32(Word(p.dig_p3), Asr32(sq, 13)), 3),
                    Asr32(Mul32(Word(p.dig_p2), v1a), 1)), 18), LAMBDA v1b :
    Let(Asr32(Mul32(Add32(Word(32768), v1b), Word(p.dig_p1)), 15), LAMBDA v1c :
    IF ZeroDivisor(v1c)
    THEN [ret |-> 0, divisor |-> Signed(v1c), divided |-> FALSE]
    ELSE
    Let(Mul32(Sub32(Sub32(Word(1048576), Word(pressure)), Asr32(v2c, 12)),
              Word(3125)), LAMBDA c0 :
    Let(IF c0[1] < 2^15 THEN UDiv32(Shl32(c0, 1), v1c)
                        ELSE Mul32(UDiv32(c0, v1c), Word(2)), LAMBDA c1 :
    Let(Asr32(Mul32(Word(p.dig_p9),
                    Lsr32(Mul32(Lsr32(c1, 3), Lsr32(c1, 3)), 13)), 12), LAMBDA v1d :
    Let(Asr32(Mul32(Lsr32(c1, 2), Word(p.dig_p8)), 13), LAMBDA v2d :
    Let(Add32(c1, Asr32(Add32(Add32(v1d, v2d), Word(p.dig_p7)), 4)), LAMBDA c2 :
    [ret |-> Signed(c2), divisor |-> Signed(v1c), divided |-> TRUE]
    )))))))))))))

\* a division by zero is undefined: what the call then returns is any of these
UndefinedResults == {-1, 0, 2147483647}

\* ---------------------------------------------------- telemetry main loop
MaxIterations == 12      \* iterations of the sensor loop in one run
SendEvery == 10          \* if (send_count % 10 == 0)
FEED_TEMP == "bmp280-temp"
FEED_PRESSURE == "bmp280-pressure"
NoParams == [DatasheetCalib EXCEPT !.dig_t1 = 0, !.dig_t2 = 0, !.dig_t3 = 0,
             !.dig_p1 = 0, !.dig_p2 = 0, !.dig_p3 = 0, !.dig_p4 = 0,
             !.dig_p5 = 0, !.dig_p6 = 0, !.dig_p7 = 0, !.dig_p8 = 0,
             !.dig_p9 = 0]
NoRaw == [temperature |-> 0, pressure |-> 0]
NoReading == [t_fine |-> 0, temperature |-> 0, pressure |-> 0,
              divisor |-> 0, divided |-> FALSE]
NotSent == [temp |-> "none", pressure |-> "none"]
NoIteration == [read |-> FALSE, sends |-> << >>, said |-> "none"]
NoConversion == [set |-> FALSE, params |-> NoParams, raw |-> NoRaw,
                 reading |-> NoReading]

\* sync_time_with_ntp: constants and the state before the call
MaxPasses == 3               \* passes of the wait loop before time_reached
NTP_MSG_LEN == 48
NTP_PORT == 123
NTP_DELTA == <<33706, 32384>>    \* 2208988800 = 0x83AA7E80
DnsReturns == {"ERR_OK", "ERR_INPROGRESS", "ERR_VAL"}
\* the datagrams the stack may hand to ntp_recv: source port, length, mode
\* bits and stratum of the header, and the transmit seconds at offset 40
Datagrams ==
    [port : {NTP_PORT, 124}, tot_len : {NTP_MSG_LEN, 47}, mode : {4, 3},
     stratum : {0, 1}, seconds : {NTP_DELTA, <<60000, 0>>, Zero32}]
NoDatagram ==
    [port |-> 0, tot_len |-> 0, mode |-> 0, stratum |-> 0, seconds |-> Zero32]
NtpIdle ==
    [pc |-> "start", pcb |-> "none", dns |-> "idle", complete |-> FALSE,
     time |-> Zero32, passes |-> 0, ret |-> "none", rtc |-> "unset",
     removes |-> "never", sends |-> "never", stale |-> FALSE,
     last |-> NoDatagram]

\* RC522 card reader (spi/rc522_spi/rc522_spi.c): constants, the register
\* values the reader may report, and the state before a call
PollLimit == 2000
RC522_MAX_LEN == 16
RC522_CMD_TRANSCEIVE == 12
RC522_CMD_MF_AUTH == 14
RequestBufLen == 2           \* uint8_t buf[2] of rc522_request
IrqValues == {0, 1, 4, 16, 32, 33}          \* ComIrqReg
ErrorValues == {0, 1, 4, 8}                 \* ErrorReg
FifoLevels == 0 .. 64                       \* FIFOLevelReg
LastBits == {0, 4, 7}                       \* ControlReg & 0x07
\* a & b on uint8_t
And8(a, b) ==
    LET f[k \in 0 .. 8] ==
            IF k = 8 THEN 0
            ELSE ((a \div 2^k) % 2) * ((b \div 2^k) % 2) * 2^k + f[k + 1]
    IN  f[0]
NoCard ==
    [pc |-> "idle", caller |-> "none", cap |-> 0, cmd |-> 0, timeout |-> 0,
     polls |-> 0, n |-> 0, status |-> 0, back_len |-> 0, stored |-> 0,
     timedOut |-> FALSE, result |-> 0]

Init ==
    /\ pc = "start"
    /\ cur = 0
    /\ tls_config = NULL
    /\ st = [a \in Addrs |-> FreshState]
    /\ ad = [u \in Uplinks |-> NULL]
    /\ hnd = [u \in Uplinks |-> NoHandle]
    /\ dns = [u \in Uplinks |-> "none"]
    /\ ret = "none"
    /\ obs = NoObs
    /\ net_silent = FALSE
    /\ c_pc = "sync1"
    /\ c_req = [i \in 1..2 |-> NoRequest]
    /\ c_fly = [r \in Requests |-> NotStarted]
    /\ c_cfg = "none"
    /\ c_total = 0
    /\ m_pc = "calib"
    /\ params = NoParams
    /\ raw = NoRaw
    /\ reading = NoReading
    /\ led_state = FALSE
    /\ send_count = 0
    /\ sent = NotSent
    /\ m_iter = NoIteration
    /\ m_log = << >>
    /\ m_first = NoConversion
    /\ rcv = NothingReceived
    /\ ntp = NtpIdle
    /\ card = NoCard

\* ------------------------------------------------------------- the world
\* The handlers below are functions on the record w = [st, hnd, dns, obs].
World == [st |-> st, hnd |-> hnd, dns |-> dns, obs |-> obs]

CloseResults == {"ERR_OK", "ERR_MEM"}                 \* altcp_close
WriteResults == {"ERR_OK", "ERR_MEM"}                 \* altcp_write
ConnectResults == {"ERR_OK", "ERR_INPROGRESS", "ERR_MEM"}   \* altcp_connect
DnsResults == {"ERR_OK", "ERR_INPROGRESS", "ERR_ARG"} \* dns_gethostbyname
CallbackErrs == {"ERR_OK", "ERR_RST"}                 \* err passed to connected
\* how often something happened: never, once, or again (more than once)
Bump(c) == IF c = "never" THEN "once" ELSE "again"

\* an event of handle/uplink u is noted while u is the uplink in progress
Note(w, u, o) == IF w.obs.who = u /\ w.obs.open THEN [w EXCEPT !.obs = o] ELSE w

\* the calls http_post_close makes on the handle, in program order, the
\* close with what it returned
TeardownCalls(cerr) ==
    << <<"altcp_arg", "NULL">>, <<"altcp_poll", "NULL">>, <<"altcp_recv", "NULL">>,
       <<"altcp_err", "NULL">>, <<"altcp_close", cerr>> >>
    \o (IF cerr # "ERR_OK" THEN << <<"altcp_abort", "">> >> ELSE << >>)

\* a teardown that leaves the error callback registered
ReleaseHandle_KeepsErrCallback(hr, cerr) ==
    [hr EXCEPT !.arg = NULL, !.poll_cb = FALSE, !.recv_cb = FALSE,
               !.status = IF hr.status # "open" THEN hr.status
                          ELSE IF cerr = "ERR_OK" THEN "closed" ELSE "aborted",
               !.relUse = (hr.status # "open") \/ hr.relUse,
               !.calls = @ \o TeardownCalls(cerr)]

\* altcp_arg/poll/recv/err(pcb, NULL), then altcp_close and, if that fails,
\* altcp_abort.  A handle the stack has already released (it is delivering
\* its error callback) is released a second time: recorded in relUse.
ReleaseHandle(hr, cerr) ==
    [hr EXCEPT !.arg = NULL, !.poll_cb = FALSE, !.recv_cb = FALSE, !.err_cb = FALSE,
               !.status = IF hr.status # "open" THEN hr.status
                          ELSE IF cerr = "ERR_OK" THEN "closed" ELSE "aborted",
               !.relUse = (hr.status # "open") \/ hr.relUse,
               !.calls = @ \o TeardownCalls(cerr)]

\* bookkeeping of a write of complete = true to a live state: the error code
\* it had when the flag was first set, and how often the flag was set
Done(s) ==
    IF s.alloc # "live" THEN [doneError |-> s.doneError, doneCount |-> s.doneCount]
    ELSE [doneError |-> IF s.complete THEN s.doneError ELSE s.error,
          doneCount |-> Bump(s.doneCount)]

http_post_close(w, a, cerr) ==
    LET s == w.st[a]
        h == s.pcb
        s1 == [s EXCEPT !.complete = TRUE,
                        !.pcb = NULL,
                        !.doneError = Done(s).doneError,
                        !.doneCount = Done(s).doneCount]
    IN  [w EXCEPT !.st[a] = s1,
                  !.hnd = IF h = NULL THEN @
                          ELSE [@ EXCEPT ![h] = ReleaseHandle(@, cerr)]]

\* altcp_connect(state->pcb, ipaddr, 443, http_post_connected) as the stack
\* answers it: ERR_VAL without a handle, ERR_ISCONN on a handle that is not
\* fresh, otherwise the result cres.
ConnectAnswer(w, a, cres) ==
    LET h == w.st[a].pcb IN
    IF h = NULL THEN "ERR_VAL"
    ELSE IF w.hnd[h].status # "open" \/ w.hnd[h].phase # "new" THEN "ERR_ISCONN"
    ELSE cres

\* how often altcp_connect has been issued on handle h, this call included;
\* early: it is issued while the resolution started for h is still pending
ConnectCount(w, h) ==
    IF h # NULL /\ w.dns[h] = "pending" THEN "early" ELSE Bump(w.obs.connects)

http_post_connect_to_server_ip(w, a, u, cres, cerr) ==
    LET h == w.st[a].pcb
        err == ConnectAnswer(w, a, cres)
        w1 == Note(w, h, [w.obs EXCEPT !.connects = ConnectCount(w, h)])
    IN  IF err = "ERR_OK" \/ err = "ERR_INPROGRESS"
        THEN [w1 EXCEPT !.hnd[h].phase = "connecting", !.hnd[h].conn_cb = TRUE]
        ELSE http_post_close(Note(w1, u, [w1.obs EXCEPT !.connFail = TRUE]), a, cerr)

http_post_dns_found(w, a, u, resolved, cres, cerr) ==
    IF resolved
    THEN http_post_connect_to_server_ip(w, a, u, cres, cerr)
    ELSE http_post_close(Note(w, u, [w.obs EXCEPT !.dnsFail = TRUE]), a, cerr)

\* http_post_open after altcp_tls_new succeeded: registers the callbacks and
\* starts the name resolution.  The result is the world and the return value.
http_post_open(w, a, u, dres, cres, cerr) ==
    LET w1 == [w EXCEPT !.st[a].pcb = u,
                        !.hnd[u] = [NoHandle EXCEPT !.status = "open",
                                        !.cfg = tls_config,
                                        !.arg = a,
                                        !.poll_cb = TRUE,
                                        !.poll_interval = w.st[a].timeout * 2,
                                        !.recv_cb = TRUE,
                                        !.err_cb = TRUE]]
    IN  IF dres = "ERR_OK"
        THEN [w |-> http_post_connect_to_server_ip(w1, a, u, cres, cerr), ok |-> TRUE]
        ELSE IF dres = "ERR_INPROGRESS"
        THEN [w |-> [w1 EXCEPT !.dns[u] = "pending"], ok |-> TRUE]
        ELSE [w |-> http_post_close(Note(w1, u, [w1.obs EXCEPT !.dnsFail = TRUE]),
                                    a, cerr),
              ok |-> FALSE]

\* altcp_write(state->pcb, request, strlen(request), TCP_WRITE_FLAG_COPY) as
\* the stack answers it
WriteAnswer(w, a, wres) ==
    LET h == w.st[a].pcb IN
    IF h = NULL THEN "ERR_VAL"
    ELSE IF w.hnd[h].status # "open" \/ w.hnd[h].phase # "connected" THEN "ERR_CONN"
    ELSE wres

http_post_connected(w, a, h, err, wres, cerr) ==
    IF err # "ERR_OK"
    THEN http_post_close(Note(w, h, [w.obs EXCEPT !.connFail = TRUE]), a, cerr)
    ELSE IF WriteAnswer(w, a, wres) # "ERR_OK"
    THEN http_post_close(Note(w, h, [w.obs EXCEPT !.writeFail = TRUE]), a, cerr)
    ELSE Note(w, w.st[a].pcb, [w.obs EXCEPT !.written = Bump(@)])

http_post_poll(w, a, h, cerr) ==
    http_post_close(Note([w EXCEPT !.st[a].error = PICO_ERROR_TIMEOUT], h,
                         [w.obs EXCEPT !.timedOut = TRUE]), a, cerr)

http_post_err(w, a, h, cerr) ==
    LET w1 == http_post_close(w, a, cerr)
    IN  [w1 EXCEPT !.st[a].error = PICO_ERROR_GENERIC]

\* pb is the pbuf the stack passes: null at end of stream
http_post_recv(w, a, h, pb, cerr) ==
    LET p == pb.data IN
    IF pb.null
    THEN http_post_close(Note([w EXCEPT !.st[a].error = 0], h,
                              [w.obs EXCEPT !.eos = TRUE]), a, cerr)
    ELSE IF Len(p) > 0
    THEN LET c == Classify(p) IN
         Note([w EXCEPT !.st[a].error = ErrorAfterClass(c, @)], h,
              [w.obs EXCEPT !.cls = c,
                            !.mix = IF c = "UnexpectedStatus" /\ @ # "other"
                                    THEN "unexpected" ELSE "other",
                            !.last = p])
    ELSE w

\* free(state): the cell keeps its bytes until it is allocated again.  Of a
\* freed cell only the pcb field is ever read again (by a handler run with a
\* dangling argument), so the other bytes of a freed cell are not tracked.
Free(s) == [FreshState EXCEPT !.alloc = "freed", !.pcb = s.pcb]

\* a return path that forgets the free
Release_Leaks(w, a) == w

\* free(state) on a return path of send_to_adafruit_io
Release(w, a) == [w EXCEPT !.st[a] = Free(@), !.obs.frees = Bump(@)]

\* What no pointer can reach any more is dropped from the world: released
\* handles and delivered resolutions of earlier uplinks (those of the uplink
\* c in progress are kept), and the bytes of freed cells that no open handle
\* and no pending resolution refers to.
Referred(w, a) ==
    \/ \E h \in Uplinks : w.hnd[h].status = "open" /\ w.hnd[h].arg = a
    \/ \E u \in Uplinks : w.dns[u] = "pending" /\ ad[u] = a

Forget(w, c) ==
    [w EXCEPT !.hnd = [h \in Uplinks |-> IF @[h].status = "open" \/ h = c
                                         THEN @[h] ELSE NoHandle],
              !.dns = [u \in Uplinks |-> IF @[u] = "pending" \/ u = c
                                         THEN @[u] ELSE "none"],
              !.st = [a \in Addrs |-> IF @[a].alloc # "freed" THEN @[a]
                                      ELSE IF Referred(w, a) THEN Free(@[a])
                                      ELSE Free(FreshState)]]

\* calloc: no memory, a free cell that something still points to (the new
\* state then shares its address with a dangling pointer), or a free cell
\* nothing points to (these are interchangeable: the lowest one is taken)
CallocResults ==
    LET free == {a \in Addrs : st[a].alloc # "live"}
        stale == {a \in free : Referred(World, a)}
        clean == free \ stale
    IN  {NULL} \cup stale \cup {a \in clean : \A b \in clean : a <= b}

Apply(w, c) ==
    /\ st' = Forget(w, c).st
    /\ hnd' = Forget(w, c).hnd
    /\ dns' = Forget(w, c).dns
    /\ obs' = w.obs

\* ------------------------------------------------------------------ main
\* main up to the telemetry loop: cyw43/Wi-Fi bring-up and the TLS config
\* created once at startup; any failure ends the program.
Startup ==
    /\ pc = "start"
    /\ \E ok \in BOOLEAN :
        IF ok
        THEN pc' = "loop" /\ tls_config' = 1
        ELSE pc' = "exit" /\ tls_config' = NULL
    /\ UNCHANGED <<cur, st, ad, hnd, dns, ret, obs, net_silent>>
    /\ UNCHANGED <<cvars, mvars, rcv, ntp, card>>

\* a config created on every call, whether or not one exists
LazyConfig_AlwaysNew(cfgOK) == IF cfgOK THEN tls_config + 1 ELSE NULL

\* if (!tls_config) tls_config = altcp_tls_create_config_client(NULL, 0);
\* configs are numbered in the order of their creation
LazyConfig(cfgOK) ==
    IF tls_config # NULL THEN tls_config ELSE IF cfgOK THEN 1 ELSE NULL

\* a size test that lets a request of exactly the buffer size through
TooLong_OffByOne(req_len) == req_len > RequestBufSize

\* if (req_len >= sizeof(state->http_request))
TooLong(req_len) == req_len >= RequestBufSize

\* send_to_adafruit_io from its entry to the wait loop (or to an early
\* return): body and request formatting, lazy TLS config, http_post_init,
\* the size check and http_post_open.
SendCall(limit, feeds) ==
    /\ pc = "loop"
    /\ cur < limit
    /\ \E feedLen \in feeds, numLen \in NumLens, a \in CallocResults,
          cfgOK \in (IF tls_config = NULL THEN BOOLEAN ELSE {TRUE}),
          newOK \in BOOLEAN, dres \in DnsResults :
      \E cres \in (IF dres = "ERR_OK" THEN ConnectResults ELSE {"ERR_OK"}),
         cerr \in (IF dres = "ERR_INPROGRESS" THEN {"ERR_OK"} ELSE CloseResults) :
        LET u == cur + 1
            cfg == LazyConfig(cfgOK)
            req_len == ReqLen(feedLen, numLen)
            base == [Forget(World, 0) EXCEPT
                        !.obs = [NoObs EXCEPT !.who = u, !.open = TRUE]]
            w0 == [base EXCEPT !.st[a] = [FreshState EXCEPT !.alloc = "live", !.owner = u],
                               !.obs.req_len = req_len,
                               !.obs.reject = IF TooLong(req_len)
                                              THEN "RequestTooLarge" ELSE "none"]
            w1 == [w0 EXCEPT !.st[a].timeout = UplinkTimeout]
            opened == http_post_open(w1, a, u, dres, cres, cerr)
            returned(w) == [w EXCEPT !.obs.open = FALSE]
            freed(w) == returned(Release(w, a))
        IN  /\ cur' = u
            /\ tls_config' = cfg
            /\ IF cfg = NULL \/ a = NULL
               THEN /\ Apply(returned(base), u)
                    /\ ret' = "false"
                    /\ pc' = "loop"
                    /\ ad' = ad
               ELSE /\ ad' = [x \in Uplinks |-> IF x = u THEN a
                                              ELSE IF dns[x] = "pending" THEN ad[x]
                                              ELSE NULL]
                    /\ IF TooLong(req_len)
                       THEN /\ Apply(freed(w0), u)
                            /\ ret' = "false"
                            /\ pc' = "loop"
                       ELSE IF ~newOK
                       THEN /\ Apply(freed(w1), u)
                            /\ ret' = "false"
                            /\ pc' = "loop"
                       ELSE IF ~opened.ok
                       THEN /\ Apply(freed(opened.w), u)
                            /\ ret' = "false"
                            /\ pc' = "loop"
                       ELSE /\ Apply(opened.w, u)
                            /\ ret' = "none"
                            /\ pc' = "wait"
    /\ UNCHANGED net_silent
    /\ UNCHANGED <<cvars, mvars, rcv, ntp, card>>

SendBegin == SendCall(MaxUplinks, FeedLens)
SendBeginLive == SendCall(MaxLiveUplinks, EdgeFeedLens)

\* the deadline branch as it would be without the assignment of the error code
WaitLoopTimeout_NoErrorCode ==
    /\ pc = "wait"
    /\ ~st[ad[cur]].complete
    /\ st' = [st EXCEPT ![ad[cur]].complete = TRUE,
                        ![ad[cur]].doneError = st[ad[cur]].error,
                        ![ad[cur]].doneCount = Bump(@)]
    /\ pc' = "finish"
    /\ UNCHANGED <<cur, tls_config, ad, hnd, dns, ret, obs, net_silent>>
    /\ UNCHANGED <<cvars, mvars, rcv, ntp, card>>

\* the wait loop reaches its 30 second deadline before seeing the flag
WaitLoopTimeout ==
    /\ pc = "wait"
    /\ ~st[ad[cur]].complete
    /\ st' = [st EXCEPT ![ad[cur]].error = PICO_ERROR_TIMEOUT,
                        ![ad[cur]].complete = TRUE,
                        ![ad[cur]].doneError = PICO_ERROR_TIMEOUT,
                        ![ad[cur]].doneCount = Bump(@)]
    /\ pc' = "finish"
    /\ UNCHANGED <<cur, tls_config, ad, hnd, dns, ret, obs, net_silent>>
    /\ UNCHANGED <<cvars, mvars, rcv, ntp, card>>

\* a wait loop that leaves on the flag of a successful uplink only
WaitLoopObserve_OnSuccessOnly ==
    /\ pc = "wait"
    /\ st[ad[cur]].complete
    /\ st[ad[cur]].error = 0
    /\ pc' = "finish"
    /\ UNCHANGED <<cur, tls_config, st, ad, hnd, dns, ret, obs, net_silent>>
    /\ UNCHANGED <<cvars, mvars, rcv, ntp, card>>

\* the wait loop sees the completion flag and leaves
WaitLoopObserve ==
    /\ pc = "wait"
    /\ st[ad[cur]].complete
    /\ pc' = "finish"
    /\ UNCHANGED <<cur, tls_config, st, ad, hnd, dns, ret, obs, net_silent>>
    /\ UNCHANGED <<cvars, mvars, rcv, ntp, card>>

\* a return that frees the TLS config when the uplink failed
Finish_DropsConfig ==
    /\ pc = "finish"
    /\ ret' = IF st[ad[cur]].error = 0 THEN "true" ELSE "false"
    /\ tls_config' = IF st[ad[cur]].error = 0 THEN tls_config ELSE NULL
    /\ Apply([Release(World, ad[cur]) EXCEPT !.obs.open = FALSE], cur)
    /\ pc' = "loop"
    /\ UNCHANGED <<cur, ad, net_silent>>
    /\ UNCHANGED <<cvars, mvars, rcv, ntp, card>>

\* success = (state->error == 0); free(state); return success
Finish ==
    /\ pc = "finish"
    /\ ret' = IF st[ad[cur]].error = 0 THEN "true" ELSE "false"
    /\ Apply([Release(World, ad[cur]) EXCEPT !.obs.open = FALSE], cur)
    /\ pc' = "loop"
    /\ UNCHANGED <<cur, tls_config, ad, net_silent>>
    /\ UNCHANGED <<cvars, mvars, rcv, ntp, card>>

\* ------------------------------------------------------------- callbacks
\* The stack delivers callbacks while the program polls or sleeps.  The
\* argument of a callback is the address registered with it; when the state
\* it pointed to has been freed the handler runs on that cell all the same.
Dispatching == pc \in {"loop", "wait", "finish"}

DnsFound ==
    /\ Dispatching
    /\ ~net_silent
    /\ \E u \in Uplinks, resolved \in BOOLEAN :
      \E cres \in (IF resolved THEN ConnectResults ELSE {"ERR_OK"}),
         cerr \in CloseResults :
        /\ dns[u] = "pending"
        /\ Apply(http_post_dns_found(
                    [World EXCEPT !.dns[u] = "done"],
                    ad[u], u, resolved, cres, cerr), cur)
    /\ UNCHANGED <<pc, cur, tls_config, ad, ret, net_silent>>
    /\ UNCHANGED <<cvars, mvars, rcv, ntp, card>>

Connected ==
    /\ Dispatching
    /\ ~net_silent
    /\ \E h \in Uplinks, err \in CallbackErrs :
      \E wres \in (IF err = "ERR_OK" THEN WriteResults ELSE {"ERR_OK"}),
         cerr \in CloseResults :
        /\ hnd[h].status = "open"
        /\ hnd[h].phase = "connecting"
        /\ hnd[h].conn_cb
        /\ hnd[h].arg # NULL
        /\ Apply(http_post_connected(
                    [World EXCEPT !.hnd[h].phase =
                        IF err = "ERR_OK" THEN "connected" ELSE "failed"],
                    hnd[h].arg, h, err, wres, cerr), cur)
    /\ UNCHANGED <<pc, cur, tls_config, ad, ret, net_silent>>
    /\ UNCHANGED <<cvars, mvars, rcv, ntp, card>>

Recv ==
    /\ Dispatching
    /\ ~net_silent
    /\ \E h \in Uplinks, pb \in Deliveries :
      \E cerr \in (IF pb.null THEN CloseResults ELSE {"ERR_OK"}) :
        /\ hnd[h].status = "open"
        /\ hnd[h].phase = "connected"
        /\ hnd[h].recv_cb
        /\ hnd[h].arg # NULL
        /\ Apply(http_post_recv(World, hnd[h].arg, h, pb, cerr), cur)
    /\ UNCHANGED <<pc, cur, tls_config, ad, ret, net_silent>>
    /\ UNCHANGED <<cvars, mvars, rcv, ntp, card>>

\* the stack releases the handle itself when it reports a fatal error
Err ==
    /\ Dispatching
    /\ ~net_silent
    /\ \E h \in Uplinks, cerr \in CloseResults :
        /\ hnd[h].status = "open"
        /\ hnd[h].phase \in {"connecting", "connected", "failed"}
        /\ hnd[h].err_cb
        /\ hnd[h].arg # NULL
        /\ Apply(http_post_err(
                    [World EXCEPT !.hnd[h].status = "erred"],
                    hnd[h].arg, h, cerr), cur)
    /\ UNCHANGED <<pc, cur, tls_config, ad, ret, net_silent>>
    /\ UNCHANGED <<cvars, mvars, rcv, ntp, card>>

\* the periodic poll of a handle the stack is running (connecting or later)
Poll ==
    /\ Dispatching
    /\ \E h \in Uplinks, cerr \in CloseResults :
        /\ hnd[h].status = "open"
        /\ hnd[h].phase \in {"connecting", "connected", "failed"}
        /\ hnd[h].poll_cb
        /\ hnd[h].arg # NULL
        /\ Apply(http_post_poll(World, hnd[h].arg, h, cerr), cur)
    /\ UNCHANGED <<pc, cur, tls_config, ad, ret, net_silent>>
    /\ UNCHANGED <<cvars, mvars, rcv, ntp, card>>

\* from here on no resolve/connected/recv/err callback arrives any more
GoSilent ==
    /\ ~net_silent
    /\ net_silent' = TRUE
    /\ UNCHANGED <<pc, cur, tls_config, st, ad, hnd, dns, ret, obs>>
    /\ UNCHANGED <<cvars, mvars, rcv, ntp, card>>

Next ==
    \/ Startup
    \/ SendBegin
    \/ WaitLoopTimeout
    \/ WaitLoopObserve
    \/ Finish
    \/ DnsFound
    \/ Connected
    \/ Recv
    \/ Err
    \/ Poll

Spec == Init /\ [][Next]_vars

\* The same program on a network that may go silent for good.  Time advances,
\* so the wait loop reaches its deadline unless it sees the flag first.
NextLive ==
    \/ Startup
    \/ SendBeginLive
    \/ WaitLoopTimeout
    \/ WaitLoopObserve
    \/ Finish
    \/ DnsFound
    \/ Connected
    \/ Recv
    \/ Err
    \/ Poll
    \/ GoSilent

\* The caller is a running thread: its clock reaches the deadline, its loop
\* condition is evaluated again, and the statements after the loop are executed.
SpecLive ==
    /\ Init /\ [][NextLive]_vars
    /\ WF_vars(WaitLoopTimeout)
    /\ WF_vars(WaitLoopObserve)
    /\ WF_vars(Finish)

\* ------------------------------------------------- HTTP client example
\* main of the HTTP client example: two sync requests, an async pair, then a
\* TLS config shared by two https sync requests and freed after them.
ReturnCodes == {0, -1}       \* err_t of httpc_get_file_dns: ERR_OK, ERR_MEM
ResultCodes == {0, 1}        \* httpc_result_t: HTTPC_RESULT_OK, an error
TlsConfigs == {NULL, 1}      \* altcp_tls_create_config_client: NULL or a config

\* http_client_request_async: clears the flag, hands the request to the stack.
\* code is how request r ended: the return code of a refused start, later the
\* result the stack reports.
http_client_request_async(reqs, fly, r, i, rc) ==
    [reqs |-> [reqs EXCEPT ![i].complete = FALSE],
     fly |-> IF rc = 0
             THEN [fly EXCEPT ![r] = [s |-> "flying", req |-> i,
                                      cfg |-> reqs[i].tls_config, code |-> 0]]
             ELSE [fly EXCEPT ![r] = [s |-> "refused", req |-> i,
                                      cfg |-> NULL, code |-> rc]]]

\* the position after the wait of a sync request, and the request it starts
SyncSteps ==
    [sync1 |-> [r |-> 1, wait |-> "sync1w", next |-> "sync2"],
     sync2 |-> [r |-> 2, wait |-> "sync2w", next |-> "async"],
     https1 |-> [r |-> 5, wait |-> "https1w", next |-> "https2"],
     https2 |-> [r |-> 6, wait |-> "https2w", next |-> "free"]]
SyncWaits ==
    [sync1w |-> "sync2", sync2w |-> "async", https1w |-> "https2", https2w |-> "free"]

\* http_client_request_sync, first half: start the request; a refusal returns
\* at once and its code is added to result
SyncStart ==
    /\ c_pc \in DOMAIN SyncSteps
    /\ \E rc \in ReturnCodes :
        LET step == SyncSteps[c_pc]
            out == http_client_request_async(c_req, c_fly, step.r, 1, rc)
        IN  /\ c_req' = out.reqs
            /\ c_fly' = out.fly
            /\ c_pc' = IF rc = 0 THEN step.wait ELSE step.next
            /\ c_total' = IF rc = 0 THEN c_total ELSE c_total + rc
    /\ UNCHANGED c_cfg
    /\ UNCHANGED <<tvars, mvars, rcv, ntp, card>>

\* http_client_request_sync, second half: while (!req->complete) poll; then
\* return req->result, which main adds to result
SyncReturn ==
    /\ c_pc \in DOMAIN SyncWaits
    /\ c_req[1].complete
    /\ c_total' = c_total + c_req[1].result
    /\ c_pc' = SyncWaits[c_pc]
    /\ UNCHANGED <<c_req, c_fly, c_cfg>>
    /\ UNCHANGED <<tvars, mvars, rcv, ntp, card>>

\* req2 = req1, then both are started asynchronously
AsyncPair ==
    /\ c_pc = "async"
    /\ \E rc1 \in ReturnCodes, rc2 \in ReturnCodes :
        LET copied == [c_req EXCEPT ![2] = c_req[1]]
            o1 == http_client_request_async(copied, c_fly, 3, 1, rc1)
            o2 == http_client_request_async(o1.reqs, o1.fly, 4, 2, rc2)
        IN  /\ c_req' = o2.reqs
            /\ c_fly' = o2.fly
            /\ c_total' = c_total + rc1 + rc2
    /\ c_pc' = "asyncw"
    /\ UNCHANGED c_cfg
    /\ UNCHANGED <<tvars, mvars, rcv, ntp, card>>

\* while (!req1.complete && !req2.complete) poll; then both results are added
AsyncWaitExit ==
    /\ c_pc = "asyncw"
    /\ ~(~c_req[1].complete /\ ~c_req[2].complete)
    /\ c_total' = c_total + c_req[1].result + c_req[2].result
    /\ c_pc' = "tls"
    /\ UNCHANGED <<c_req, c_fly, c_cfg>>
    /\ UNCHANGED <<tvars, mvars, rcv, ntp, card>>

\* req1.tls_config = altcp_tls_create_config_client(NULL, 0), not checked
TlsCreate ==
    /\ c_pc = "tls"
    /\ \E cfg \in TlsConfigs :
        /\ c_req' = [c_req EXCEPT ![1].tls_config = cfg]
        /\ c_cfg' = IF cfg = NULL THEN "none" ELSE "live"
    /\ c_pc' = "https1"
    /\ UNCHANGED <<c_fly, c_total>>
    /\ UNCHANGED <<tvars, mvars, rcv, ntp, card>>

\* altcp_tls_free_config(req1.tls_config)
TlsFree ==
    /\ c_pc = "free"
    /\ c_cfg' = IF c_req[1].tls_config = NULL THEN c_cfg ELSE "freed"
    /\ c_pc' = "verdict"
    /\ UNCHANGED <<c_req, c_fly, c_total>>
    /\ UNCHANGED <<tvars, mvars, rcv, ntp, card>>

\* if (result != 0) panic("test failed"); else "Test passed"
Verdict ==
    /\ c_pc = "verdict"
    /\ c_pc' = IF c_total # 0 THEN "panic" ELSE "passed"
    /\ UNCHANGED <<c_req, c_fly, c_cfg, c_total>>
    /\ UNCHANGED <<tvars, mvars, rcv, ntp, card>>

\* the result callback of a request in flight: the stack is done with it and
\* the request object it was started on gets complete and result
Complete ==
    /\ c_pc \notin {"panic", "passed"}
    /\ \E r \in Requests, code \in ResultCodes :
        /\ c_fly[r].s = "flying"
        /\ c_fly' = [c_fly EXCEPT ![r].s = "done", ![r].code = code]
        /\ c_req' = [c_req EXCEPT ![c_fly[r].req].complete = TRUE,
                                  ![c_fly[r].req].result = code]
    /\ UNCHANGED <<c_pc, c_cfg, c_total>>
    /\ UNCHANGED <<tvars, mvars, rcv, ntp, card>>

NextClient ==
    \/ SyncStart
    \/ SyncReturn
    \/ AsyncPair
    \/ AsyncWaitExit
    \/ TlsCreate
    \/ TlsFree
    \/ Verdict
    \/ Complete

SpecClient == Init /\ [][NextClient]_vars

\* ---------------------------------------------------- telemetry main loop
\* main of adafruit_io_bmp280.c from the calibration read on.  Here a call of
\* send_to_adafruit_io is one step that yields what the call returns; the
\* steps inside the call are the actions SendBegin .. Finish above.
UplinkReturns == {"true", "false"}

\* bmp280_get_calib_params(&params)
ReadCalibration ==
    /\ m_pc = "calib"
    /\ \E c \in Calibs : params' = c
    /\ m_pc' = "read"
    /\ UNCHANGED <<raw, reading, led_state, send_count, sent, m_iter, m_log, m_first>>
    /\ UNCHANGED <<tvars, cvars, rcv, ntp, card>>

\* if (send_count % 10 == 0)
SendDue_AfterTen(count) == count % SendEvery = SendEvery - 1
SendDue(count) == count % SendEvery = 0

\* what the three conversion calls at the top of the loop return, for every
\* calibration and raw reading of the model
Conversions ==
    [c \in Calibs |-> [t \in RawTemperatures |-> [p \in RawPressures |->
        [t_fine |-> bmp280_convert(t, c),
         temperature |-> bmp280_convert_temp(t, c),
         pressure |-> bmp280_convert_pressure(p, t, c)]]]]

\* the calibration struct after a conversion that computed t_fine: the
\* conversions read *params and assign nothing through the pointer
Converted_KeepsFine(p, t_fine) == [p EXCEPT !.dig_t1 = t_fine % Half]
Converted(p, t_fine) == p

\* top of the loop: read the sensor, convert, print, toggle the LED
ReadSensor ==
    /\ m_pc = "read"
    /\ send_count < MaxIterations
    /\ \E t \in RawTemperatures, p \in RawPressures :
          LET cv == Conversions[params][t][p]
              returned == IF cv.pressure.divided /\ cv.pressure.divisor = 0
                          THEN UndefinedResults ELSE {cv.pressure.ret}
          IN  /\ raw' = [temperature |-> t, pressure |-> p]
              /\ \E v \in returned :
                    reading' = [t_fine |-> cv.t_fine,
                                temperature |-> cv.temperature,
                                pressure |-> v,
                                divisor |-> cv.pressure.divisor,
                                divided |-> cv.pressure.divided]
    /\ params' = Converted(params, reading'.t_fine)
    /\ m_first' = IF m_first.set THEN m_first
                  ELSE [set |-> TRUE, params |-> params, raw |-> raw',
                        reading |-> reading']
    /\ led_state' = ~led_state
    /\ m_iter' = [m_iter EXCEPT !.read = TRUE]
    /\ m_pc' = IF SendDue(send_count) THEN "temp" ELSE "count"
    /\ UNCHANGED <<send_count, sent, m_log>>
    /\ UNCHANGED <<tvars, cvars, rcv, ntp, card>>

\* where main goes on after the temperature uplink returned ok
AfterTemperature_GivesUp(ok) == IF ok = "true" THEN "pressure" ELSE "report"
AfterTemperature(ok) == "pressure"

\* temp_sent = send_to_adafruit_io(ADAFRUIT_IO_FEED_TEMP, temp_c); sleep_ms(1000)
SendTemperature ==
    /\ m_pc = "temp"
    /\ \E ok \in UplinkReturns :
          /\ sent' = [sent EXCEPT !.temp = ok]
          /\ m_pc' = AfterTemperature(ok)
    /\ m_iter' = [m_iter EXCEPT !.sends = Append(@, FEED_TEMP)]
    /\ UNCHANGED <<params, raw, reading, led_state, send_count, m_log, m_first>>
    /\ UNCHANGED <<tvars, cvars, rcv, ntp, card>>

\* pressure_sent = send_to_adafruit_io(ADAFRUIT_IO_FEED_PRESSURE, pressure_kpa)
SendPressure ==
    /\ m_pc = "pressure"
    /\ \E ok \in UplinkReturns : sent' = [sent EXCEPT !.pressure = ok]
    /\ m_iter' = [m_iter EXCEPT !.sends = Append(@, FEED_PRESSURE)]
    /\ m_pc' = "report"
    /\ UNCHANGED <<params, raw, reading, led_state, send_count, m_log, m_first>>
    /\ UNCHANGED <<tvars, cvars, rcv, ntp, card>>

\* if (temp_sent && pressure_sent) printf(...) else printf(...)
Report ==
    /\ m_pc = "report"
    /\ m_iter' = [m_iter EXCEPT !.said =
                     IF sent.temp = "true" /\ sent.pressure = "true"
                     THEN "Data sent successfully!" ELSE "Failed to send data"]
    /\ m_pc' = "count"
    /\ UNCHANGED <<params, raw, reading, led_state, send_count, sent, m_log, m_first>>
    /\ UNCHANGED <<tvars, cvars, rcv, ntp, card>>

\* send_count++; sleep_ms(500); and back to the top of while (1)
NextIteration ==
    /\ m_pc = "count"
    /\ send_count' = send_count + 1
    /\ m_log' = Append(m_log, [count |-> send_count, read |-> m_iter.read,
                               sends |-> m_iter.sends, said |-> m_iter.said])
    /\ m_iter' = NoIteration
    /\ sent' = NotSent
    /\ m_pc' = "read"
    /\ UNCHANGED <<params, raw, reading, led_state, m_first>>
    /\ UNCHANGED <<tvars, cvars, rcv, ntp, card>>

\* http_post_recv called with a non-null pbuf of tot_len bytes, on a state
\* whose error field is what the fragments before left
RecvFragment ==
    /\ rcv.n < MaxFragments
    /\ \E head \in Fragments, tot_len \in TotalLengths :
          /\ tot_len >= Len(head)
          /\ LET p == Pbuf(head, tot_len)
                 c == IF Len(p) > 0 THEN Classify(p) ELSE "None"
                 use == IF Len(p) > 0 THEN BufferUse(p)
                        ELSE [copied |-> 0, terminator |-> 0, acked |-> 0]
             IN  rcv' = [n |-> rcv.n + 1, head |-> head, tot_len |-> tot_len,
                         copied |-> use.copied, terminator |-> use.terminator,
                         acked |-> use.acked, cls |-> c,
                         before |-> rcv.error,
                         error |-> IF Len(p) > 0
                                   THEN ErrorAfterClass(c, rcv.error)
                                   ELSE rcv.error]
    /\ UNCHANGED <<tvars, cvars, mvars, ntp, card>>

NextRecv == RecvFragment

SpecRecv == Init /\ [][NextRecv]_vars

NextMain ==
    \/ ReadCalibration
    \/ ReadSensor
    \/ SendTemperature
    \/ SendPressure
    \/ Report
    \/ NextIteration

\* main is the only thread of the loop: it takes its next step
SpecMain == Init /\ [][NextMain]_vars /\ WF_vars(NextMain)

\* ------------------------------------------------ NTP time synchronisation
\* sync_time_with_ntp of the HTTP client example: one UDP socket, a name
\* resolution whose callback gets the socket as its argument, and a wait of
\* NTP_TIMEOUT_MS in passes of 100 ms.
\* udp_sendto(ntp_pcb, ...): stale records a send on a socket udp_remove has
\* already released
udp_sendto(n) ==
    [n EXCEPT !.sends = Bump(@), !.stale = @ \/ n.pcb = "removed"]
\* udp_remove(ntp_pcb)
udp_remove(n) == [n EXCEPT !.pcb = "removed", !.removes = Bump(@)]

\* sync_time_with_ntp up to the wait loop
NtpStart ==
    /\ ntp.pc = "start"
    /\ \E created \in BOOLEAN, err \in DnsReturns :
        LET armed == [ntp EXCEPT !.pcb = "live", !.complete = FALSE,
                                 !.time = Zero32]
        IN  ntp' = IF ~created
                   THEN [ntp EXCEPT !.pc = "returned", !.ret = "false"]
                   ELSE IF err = "ERR_OK"
                   THEN [udp_sendto(armed) EXCEPT !.pc = "wait", !.dns = "answered"]
                   ELSE IF err = "ERR_INPROGRESS"
                   THEN [armed EXCEPT !.pc = "wait", !.dns = "pending"]
                   ELSE [udp_remove(armed) EXCEPT !.pc = "returned",
                                                  !.ret = "false"]
    /\ UNCHANGED <<tvars, cvars, mvars, rcv, card>>

\* one pass of while (!ntp_complete && !time_reached(timeout))
NtpPass ==
    /\ ntp.pc = "wait"
    /\ ~ntp.complete
    /\ ntp.passes < MaxPasses
    /\ ntp' = [ntp EXCEPT !.passes = @ + 1]
    /\ UNCHANGED <<tvars, cvars, mvars, rcv, card>>

\* the loop is left: udp_remove, the test of the outcome, the RTC
NtpFinish ==
    /\ ntp.pc = "wait"
    /\ ntp.complete \/ ntp.passes = MaxPasses
    /\ \E rtc_ok \in BOOLEAN :
        LET removed == [udp_remove(ntp) EXCEPT !.pc = "returned"]
        IN  ntp' = IF ~ntp.complete \/ ntp.time = Zero32
                   THEN [removed EXCEPT !.ret = "false"]
                   ELSE IF rtc_ok
                   THEN [removed EXCEPT !.ret = "true", !.rtc = "set"]
                   ELSE [removed EXCEPT !.ret = "false"]
    /\ UNCHANGED <<tvars, cvars, mvars, rcv, card>>

\* ntp_dns_found: the resolver answers, in the wait loop or in a later poll
\* of the program (the request is not withdrawn when the function returns)
ntp_dns_found(n, found) ==
    IF found THEN udp_sendto(n) ELSE [n EXCEPT !.complete = TRUE]
NtpDnsFound ==
    /\ ntp.dns = "pending"
    /\ \E found \in BOOLEAN :
        ntp' = ntp_dns_found([ntp EXCEPT !.dns = "answered"], found)
    /\ UNCHANGED <<tvars, cvars, mvars, rcv, card>>

\* ntp_recv: a datagram for the socket, which is bound once a request was sent
ntp_recv(n, p) ==
    IF p.port = NTP_PORT /\ p.tot_len = NTP_MSG_LEN /\ p.mode = 4 /\ p.stratum # 0
    THEN [n EXCEPT !.time = Sub32(p.seconds, NTP_DELTA), !.complete = TRUE,
                   !.last = p]
    ELSE [n EXCEPT !.complete = TRUE, !.last = p]
NtpRecv ==
    /\ ntp.pcb = "live"
    /\ ntp.sends # "never"
    /\ \E p \in Datagrams : ntp' = ntp_recv(ntp, p)
    /\ UNCHANGED <<tvars, cvars, mvars, rcv, card>>

NextNtp ==
    \/ NtpStart
    \/ NtpPass
    \/ NtpFinish
    \/ NtpDnsFound
    \/ NtpRecv

SpecNtp == Init /\ [][NextNtp]_vars

\* ------------------------------------------------------ RC522 card reader
\* irq_en and wait_irq of rc522_to_card for a command
IrqEn(cmd) == IF cmd = RC522_CMD_TRANSCEIVE THEN 119
              ELSE IF cmd = RC522_CMD_MF_AUTH THEN 18 ELSE 0
WaitIrq(cmd) == IF cmd = RC522_CMD_TRANSCEIVE THEN 48
                ELSE IF cmd = RC522_CMD_MF_AUTH THEN 16 ELSE 0

\* rc522_to_card up to timeout = 2000, called with a buffer of cap bytes
CardCall(caller, cap) ==
    [NoCard EXCEPT !.pc = "poll", !.caller = caller, !.cap = cap,
                   !.cmd = RC522_CMD_TRANSCEIVE, !.timeout = PollLimit,
                   !.status = 2]

\* rc522_request: buf[2], one byte sent, the answer read back into buf
CardRequest ==
    /\ card.pc = "idle"
    /\ card' = CardCall("request", RequestBufLen)
    /\ UNCHANGED <<tvars, cvars, mvars, rcv, ntp>>

\* rc522_anticoll: buf[RC522_MAX_LEN], two bytes sent
CardAnticoll ==
    /\ card.pc = "detected"
    /\ card' = CardCall("anticoll", RC522_MAX_LEN)
    /\ UNCHANGED <<tvars, cvars, mvars, rcv, ntp>>

\* the loop goes on: while ((timeout != 0) && !(n & 0x01) && !(n & wait_irq))
PollAgain(timeout, n, cmd) ==
    timeout # 0 /\ And8(n, 1) = 0 /\ And8(n, WaitIrq(cmd)) = 0

\* one pass of do { n = read_register(COM_IRQ); timeout--; } while (...)
CardPoll ==
    /\ card.pc = "poll"
    /\ \E irq \in IrqValues :
        card' = [card EXCEPT
                    !.n = irq,
                    !.timeout = (@ - 1) % Half,
                    !.polls = @ + 1,
                    !.pc = IF PollAgain((card.timeout - 1) % Half, irq, card.cmd)
                           THEN "poll" ELSE "read"]
    /\ UNCHANGED <<tvars, cvars, mvars, rcv, ntp>>

\* the number of bytes the loop for (i = 0; i < n; i++) back_data[i] = ... stores
Clamp(level) ==
    IF level = 0 THEN 1
    ELSE IF level > RC522_MAX_LEN THEN RC522_MAX_LEN ELSE level

\* *back_len, a uint8_t
BackLen(level, last_bits) ==
    IF last_bits # 0 THEN ((level - 1) * 8 + last_bits) % 256
                     ELSE (level * 8) % 256

\* after the loop: if (timeout != 0), the error register and the status; the
\* locals of the loop end here
CardStatus ==
    /\ card.pc = "read"
    /\ \E err \in ErrorValues :
        LET done == [card EXCEPT !.pc = "back", !.timeout = 0, !.polls = 0,
                                 !.n = 0, !.timedOut = card.timeout = 0]
            status == IF And8(And8(card.n, IrqEn(card.cmd)), 1) # 0
                      THEN 1 ELSE 0
        IN  card' =
              IF card.timeout = 0 THEN done
              ELSE IF And8(err, 27) # 0 THEN [done EXCEPT !.status = 2]
              ELSE IF card.cmd = RC522_CMD_TRANSCEIVE
              THEN [done EXCEPT !.status = status, !.pc = "fifo"]
              ELSE [done EXCEPT !.status = status]
    /\ UNCHANGED <<tvars, cvars, mvars, rcv, ntp>>

\* a transceive without error: the FIFO level, *back_len, and the bytes read
\* back into back_data
CardRead ==
    /\ card.pc = "fifo"
    /\ \E level \in FifoLevels, last_bits \in LastBits :
        card' = [card EXCEPT !.pc = "back",
                             !.back_len = BackLen(level, last_bits),
                             !.stored = Clamp(level)]
    /\ UNCHANGED <<tvars, cvars, mvars, rcv, ntp>>

\* what the caller makes of the status.  Bytes stored beyond the caller's
\* buffer overwrite its frame: the call then returns any status or does not
\* return.  rc522_anticoll compares a checksum over the bytes read.
CardReturn ==
    /\ card.pc = "back"
    /\ \E checksum_ok \in BOOLEAN, crashed \in BOOLEAN, clobbered \in {0, 1, 2} :
        LET result ==
                IF card.stored > card.cap THEN clobbered
                ELSE IF card.caller = "request"
                THEN (IF card.status # 0 \/ card.back_len # 16 THEN 1 ELSE 0)
                ELSE (IF card.status = 0 /\ ~checksum_ok THEN 2 ELSE card.status)
        IN  card' = [card EXCEPT
                        !.result = result,
                        !.pc = IF card.stored > card.cap /\ crashed THEN "crashed"
                               ELSE IF card.caller = "request" /\ result = 0
                               THEN "detected" ELSE "idle"]
    /\ UNCHANGED <<tvars, cvars, mvars, rcv, ntp>>

NextCard ==
    \/ CardRequest
    \/ CardAnticoll
    \/ CardPoll
    \/ CardStatus
    \/ CardRead
    \/ CardReturn

SpecCard == Init /\ [][NextCard]_vars

\* ------------------------------------------------------------ properties
LiveCells == {a \in Addrs : st[a].alloc = "live"}
Returned == ret # "none"
Digit == {"0", "1", "2", "3", "4", "5", "6", "7", "8", "9"}

\* C1: handle hygiene -- whenever the completion flag of a state is true its
\* transport handle is NULL, on every path that sets the flag, the wait-loop
\* timeout included.
C1_HandleHygiene ==
    \A a \in LiveCells : st[a].complete => st[a].pcb = NULL

\* C4: DNS failure outcome -- an uplink whose name resolution failed ends
\* with a non-success result: send_to_adafruit_io returns false.
C4_DnsFailureFails ==
    (obs.dnsFail /\ Returned) => ret = "false"

\* C5: connect failure outcome -- an uplink whose connect failed (connected
\* callback with an error, or altcp_connect refusing) returns false.
C5_ConnectFailureFails ==
    (obs.connFail /\ Returned) => ret = "false"

\* C6: write failure outcome -- an uplink whose altcp_write failed in the
\* connected callback returns false.
C6_WriteFailureFails ==
    (obs.writeFail /\ Returned) => ret = "false"

\* C7: end of stream carries the classified outcome -- after a fragment
\* classified AuthFailure or NotFound, the end-of-stream delivery leaves that
\* failure in place and the uplink returns false.
C7_EosKeepsFailure ==
    (obs.cls \in {"AuthFailure", "NotFound"} /\ obs.eos /\ Returned) => ret = "false"

\* C8: unexpected status -- an uplink that received only responses matching
\* none of the recognised status lines, and then end of stream, does not
\* report success.
C8_UnexpectedFails ==
    (obs.mix = "unexpected" /\ obs.eos /\ Returned) => ret = "false"

\* the classification the specification describes: any 2xx is a success
IsStatus(p, d1) ==
    /\ Len(p) >= StatusPrefixLen
    /\ SubSeq(p, 1, 9) = HTTP11
    /\ p[10] = d1 /\ p[11] \in Digit /\ p[12] \in Digit
ClaimedClass(p) ==
    IF IsStatus(p, "2") THEN "Success"
    ELSE IF SubSeq(p, 1, Min(Len(p), StatusPrefixLen)) = Lit401 THEN "AuthFailure"
    ELSE IF SubSeq(p, 1, Min(Len(p), StatusPrefixLen)) = Lit404 THEN "NotFound"
    ELSE "UnexpectedStatus"

\* C9: status classification -- the recv callback classifies the status line
\* as Success (any 2xx), AuthFailure (401), NotFound (404) or UnexpectedStatus
\* (anything else), and an uplink classified Success that then sees end of
\* stream returns true.
C9_StatusClassification ==
    /\ obs.last # << >> => obs.cls = ClaimedClass(obs.last)
    /\ (obs.cls = "Success" /\ obs.eos /\ Returned) => ret = "true"

\* C10: the final error code is fixed at Done -- once the completion flag of
\* a state is true, its error code is the one it had when the flag was set.
C10_FinalErrorFixed ==
    \A a \in LiveCells : st[a].complete => st[a].error = st[a].doneError

\* C3: timeout convergence -- from every non-terminal state of an open
\* uplink, if no further resolve/connected/recv/err callback arrives, the
\* uplink reaches complete == true with error == PICO_ERROR_TIMEOUT.
Waiting(u) == cur = u /\ pc = "wait" /\ ~st[ad[u]].complete
TimedOut(u) ==
    /\ cur = u
    /\ pc \in {"wait", "finish"}
    /\ st[ad[u]].complete
    /\ st[ad[u]].error = PICO_ERROR_TIMEOUT
C3_TimeoutConvergence ==
    \A u \in Uplinks : (net_silent /\ Waiting(u)) ~> TimedOut(u)
C3_Witness ==
    net_silent /\ cur > 0 /\ TimedOut(cur) /\ ~obs.eos /\ obs.cls = "None"

\* C2: no use-after-free of the shared TLS context -- altcp_tls_free_config
\* is called on a config only when every request started with it has
\* completed, under every ordering of request completions.
C2_NoConfigUseAfterFree ==
    c_cfg = "freed" =>
        \A r \in Requests : c_fly[r].cfg # NULL => c_fly[r].s # "flying"

\* C11: the completion flag is set exactly once per uplink -- over any
\* sequence of callbacks and caller-loop steps, state->complete of a
\* ConnectionState is written to true at most once.
C11_CompleteOnce ==
    \A a \in LiveCells : st[a].doneCount # "again"

\* a callback step runs a handler and leaves the caller where it is
CallbackStep == Connected \/ Recv \/ Poll \/ Err

\* C12: deferred re-entry -- a close that arises inside a transport callback
\* (connected, recv, poll or err) is deferred until the callback has
\* returned: no callback step itself runs the teardown of http_post_close,
\* which is what takes the handle out of a ConnectionState.
C12_DeferredClose ==
    [][CallbackStep =>
          \A a \in LiveCells : st[a].pcb # NULL => st'[a].pcb # NULL]_vars

\* C13: closing sequence -- http_post_close on a state with a handle first
\* unregisters the callbacks of the handle, then tries altcp_close, calls
\* altcp_abort if and only if altcp_close returned an error, and finally sets
\* state->pcb to NULL; close and abort are each called at most once per
\* handle, and no callback of the handle (the connected callback included)
\* can fire afterwards: the handle is not open and has no callback argument
\* and no poll, recv or err callback left.
Unregisters == {<<"altcp_arg", "NULL">>, <<"altcp_poll", "NULL">>,
                <<"altcp_recv", "NULL">>, <<"altcp_err", "NULL">>}
TornDown(h) == hnd[h].calls # << >>
ClosedInOrder(h) ==
    LET c == hnd[h].calls IN
    /\ Len(c) \in {5, 6}
    /\ {c[i] : i \in 1..4} = Unregisters
    /\ c[5][1] = "altcp_close"
    /\ (Len(c) = 6) <=> (c[5][2] # "ERR_OK")
    /\ Len(c) = 6 => c[6][1] = "altcp_abort"
    /\ hnd[h].status # "open"
    /\ hnd[h].status = "aborted" => Len(c) = 6
    /\ hnd[h].arg = NULL /\ ~hnd[h].poll_cb /\ ~hnd[h].recv_cb /\ ~hnd[h].err_cb
    /\ \A a \in LiveCells : st[a].pcb # h
C13_ClosingSequence ==
    \A h \in Uplinks : TornDown(h) => ClosedInOrder(h)
C13_Witness ==
    /\ cur > 0
    /\ hnd[cur].status = "aborted"
    /\ hnd[cur].conn_cb
    /\ Len(hnd[cur].calls) = 6

\* C14: closing preserves the outcome -- an uplink finishes as Success only
\* if no failure was recorded and the graceful close succeeded cleanly: an
\* uplink whose close fell back to a hard abort is not reported as Success.
C14_AbortIsNotSuccess ==
    (cur > 0 /\ pc = "loop" /\ hnd[cur].status = "aborted") => ret # "true"

\* C15: timeout aborts the handle -- when the liveness timeout fires (the
\* poll callback or the caller's wait-loop deadline) the outcome recorded is
\* Timeout and the handle is released: no handle of a timed-out uplink
\* stays open.
C15_TimeoutReleasesHandle ==
    (pc = "finish" /\ st[ad[cur]].error = PICO_ERROR_TIMEOUT)
        => hnd[cur].status # "open"

\* C17: clean teardown on every failure -- when send_to_adafruit_io has
\* returned, every handle it created has been closed or aborted: none is
\* left open.
C17_NoHandleLeftOpen ==
    pc = "loop" => \A h \in Uplinks : hnd[h].status # "open"

\* C20: one driver per handle, one uplink at a time -- the callbacks of each
\* handle reference one ConnectionState of their own, and the handle of an
\* uplink is created only after the handle of the uplink before it is no
\* longer open: at most one handle is open at any time.
OpenHandles == {h \in Uplinks : hnd[h].status = "open"}
C20_OneHandleAtATime ==
    /\ Cardinality(OpenHandles) <= 1
    /\ \A g \in OpenHandles, h \in OpenHandles :
          (g # h /\ hnd[g].arg # NULL) => hnd[g].arg # hnd[h].arg

\* C16: oversize rejection before I/O -- a composed request that does not
\* fit in the 512-byte buffer (its text and the terminating NUL) makes
\* send_to_adafruit_io return false (RequestTooLarge) without a transport
\* handle, a name resolution or any other I/O, and with the ConnectionState
\* released; a request that fits is not rejected for its size.
Fits(len) == len + 1 <= RequestBufSize
BothAttempted(sends) == sends = <<FEED_TEMP, FEED_PRESSURE>>
\* iteration k is finished and its pair was reported as failed
FailedPair(k) == k < Len(m_log) /\ m_log[k + 1].said = "Failed to send data"

\* C21: a failed uplink never stops the loop: when the temperature uplink
\* returned false the pressure uplink is attempted all the same, the loop runs
\* on whatever the uplinks returned, and the iteration SendEvery after a failed
\* pair attempts both uplinks again.
C21_RetryLeftToLoop ==
    /\ [](sent.temp = "false" /\ m_pc \in {"report", "count"}
            => BothAttempted(m_iter.sends))
    /\ [](\A k \in 0..(MaxIterations - 1) :
            FailedPair(k) /\ k + SendEvery < Len(m_log)
                => BothAttempted(m_log[k + SendEvery + 1].sends))
    /\ <>(send_count = MaxIterations)
C21_Witness ==
    /\ send_count = SendEvery
    /\ m_pc = "count"
    /\ BothAttempted(m_iter.sends)
    /\ FailedPair(0)
    /\ sent.temp = "false"

\* C30: every iteration reads the sensor; the iterations whose send_count is a
\* multiple of 10, the first one included, attempt the temperature uplink and
\* then the pressure uplink, the others attempt none; send_count goes up by one
\* per iteration whatever was sent and whatever the uplinks returned.
C30_SendCadence ==
    /\ Len(m_log) = send_count
    /\ \A i \in 1..Len(m_log) :
          /\ m_log[i].count = i - 1
          /\ m_log[i].read
          /\ m_log[i].sends = IF (i - 1) % 10 = 0
                              THEN <<FEED_TEMP, FEED_PRESSURE>> ELSE << >>
C30_Witness ==
    /\ Len(m_log) > 10
    /\ m_log[1].said = "Failed to send data"
    /\ m_log[11].said = "Data sent successfully!"
    /\ m_log[2].sends = << >>

\* --------------------------------------------- compensation properties
\* the example of the data sheet: its calibration and its raw readings
ExampleTemperatureCalib ==
    params.dig_t1 = 27504 /\ params.dig_t2 = 26435 /\ params.dig_t3 = -1000
ExamplePressureCalib ==
    /\ params.dig_p1 = 36477 /\ params.dig_p2 = -10685 /\ params.dig_p3 = 3024
    /\ params.dig_p4 = 2855 /\ params.dig_p5 = 140 /\ params.dig_p6 = -7
    /\ params.dig_p7 = 15500 /\ params.dig_p8 = -14600 /\ params.dig_p9 = 6000

\* C26: with dig_T1 = 27504, dig_T2 = 26435, dig_T3 = -1000 and the raw
\* temperature 519888, bmp280_convert returns 128422 and bmp280_convert_temp
\* returns 2508.
C26_ReferenceTemperature ==
    ExampleTemperatureCalib /\ raw.temperature = 519888
        => reading.t_fine = 128422 /\ reading.temperature = 2508
C26_Witness ==
    /\ ExampleTemperatureCalib
    /\ raw.temperature = 519888
    /\ m_iter.read
    /\ reading.temperature = 2508

\* C27: with the example calibration and the raw readings 519888 and 415148,
\* bmp280_convert_pressure returns 100653.
C27_ReferencePressure ==
    /\ ExampleTemperatureCalib
    /\ ExamplePressureCalib
    /\ raw = [temperature |-> 519888, pressure |-> 415148]
    => reading.pressure = 100653

\* C28: bmp280_convert_pressure never divides by zero: when the divisor var1
\* is 0 at the test it has returned 0 and has executed no division.
C28_ZeroDivisorGuard ==
    /\ ~(reading.divided /\ reading.divisor = 0)
    /\ (reading.divisor = 0 => reading.pressure = 0 /\ ~reading.divided)
C28_Witness ==
    /\ m_iter.read
    /\ params.dig_p1 = 1
    /\ reading.divisor = 0
    /\ reading.pressure = 0

C22_OneConnect ==
    /\ obs.connects \in {"never", "once"}
    /\ \A u \in Uplinks :
          obs.open /\ obs.who = u /\ hnd[u].status = "open" /\ hnd[u].phase = "new"
              => dns[u] = "pending" /\ obs.connects = "never"

\* C23: the request of an uplink is written to its handle at most once, and
\* not before the connect of that handle has been issued.
C23_RequestWrittenOnce ==
    /\ obs.written \in {"never", "once"}
    /\ (obs.written # "never" => obs.connects # "never")

\* C24: a call of send_to_adafruit_io that has reached its wait loop returns,
\* whatever callbacks arrive and also when none arrives; the wait loop is left
\* towards the return only.
HasReturned(u) == cur = u /\ pc = "loop" /\ ret \in {"true", "false"}
C24_BoundedCallerWait ==
    /\ \A u \in Uplinks : (cur = u /\ pc = "wait") ~> HasReturned(u)
    /\ [][pc = "wait" => pc' \in {"wait", "finish"}]_vars
    /\ [][pc = "finish" => pc' \in {"finish", "loop"}]_vars
C24_Witness ==
    /\ cur > 0
    /\ HasReturned(cur)
    /\ net_silent
    /\ obs.connects = "never"
    /\ obs.reject = "none"

\* ------------------------------------------------- receive buffer properties
\* C25: of a fragment of any total length http_post_recv stores
\* min(tot_len, 511) bytes and a terminator inside its 512-byte buffer,
\* acknowledges tot_len, and classifies the fragment as it classifies the first
\* 511 bytes of it; bytes beyond those never make the outcome an error.
C25_TruncationIsNoError ==
    rcv.n > 0 /\ rcv.tot_len > 0 =>
        LET p == Pbuf(rcv.head, rcv.tot_len)
            prefix == SubSeq(p, 1, Min(rcv.tot_len, 511))
        IN  /\ rcv.copied = Min(rcv.tot_len, 511)
            /\ rcv.terminator = rcv.copied
            /\ rcv.terminator < 512
            /\ rcv.acked = rcv.tot_len
            /\ rcv.cls = Classify(prefix)
            /\ rcv.error = ErrorAfterClass(Classify(prefix), rcv.before)
C25_Witness ==
    /\ rcv.n = 2
    /\ rcv.tot_len = 1460
    /\ rcv.copied = 511
    /\ rcv.head = Lit201
    /\ rcv.before = PICO_ERROR_GENERIC
    /\ rcv.error = 0

\* ------------------------------------------------- ownership properties
\* C31: http_post_close operates only on a handle the state still owns: no
\* handle that the stack has released already (it was delivering its error
\* callback) is unregistered, closed or aborted by the uplink.
C31_NoOperationOnReleasedHandle ==
    \A h \in Uplinks : ~hnd[h].relUse

\* C32: no callback can be delivered into a released state: the argument
\* registered with an open handle, and the argument of a pending resolution,
\* is a live state, the one of the uplink that registered it.
C32_NoCallbackIntoReleasedState ==
    /\ \A h \in Uplinks :
          hnd[h].status = "open" /\ hnd[h].arg # NULL
              => st[hnd[h].arg].alloc = "live" /\ st[hnd[h].arg].owner = h
    /\ \A u \in Uplinks :
          dns[u] = "pending"
              => st[ad[u]].alloc = "live" /\ st[ad[u]].owner = u

\* C33: a call of send_to_adafruit_io that allocated a state frees it exactly
\* once, at its return and not before, on each of its return paths; the value
\* returned after the wait loop is true exactly when state->error is 0 at
\* that moment, and the paths that return before the wait loop return false.
Allocated == cur > 0 /\ obs.who = cur /\ ad[cur] # NULL
C33_ReleasedExactlyOnce ==
    /\ [](Allocated /\ obs.open
            => obs.frees = "never" /\ st[ad[cur]].alloc = "live")
    /\ [](Allocated /\ ~obs.open
            => obs.frees = "once" /\ st[ad[cur]].alloc # "live"
               /\ ret \in {"true", "false"})
    /\ [][pc = "finish" /\ pc' = "loop"
            => (ret' = "true" <=> st[ad[cur]].error = 0)]_vars
    /\ [][pc = "loop" /\ pc' = "loop" /\ cur' # cur => ret' = "false"]_vars
C33_Witness ==
    /\ Allocated
    /\ ~obs.open
    /\ obs.frees = "once"
    /\ ret = "true"
    /\ obs.written = "once"


\* ---------------------------------------------- compensation over integers
\* The exact product a * b as the pair <<q, r>> that stands for q * 2^16 + r,
\* 0 <= r < 2^16, for |a| < 2^21 and |b| <= 2^16: b is taken in two parts so
\* that no partial product leaves the range of the model checker's integers.
Product(a, b) ==
    LET x  == a * (b \div 256)
        y  == a * (b % 256)
        lo == (x % 256) * 256 + (y % Half)
    IN  <<(x \div 256) + (y \div Half) + (lo \div Half), lo % Half>>
\* the pair is a value of int32_t
FitsInt32(w) == w[1] >= 0 - 2^15 /\ w[1] < 2^15
\* floor(w / 2^n), 0 < n <= 16
Shifted(w, n) == w[1] * 2^(16 - n) + (w[2] \div 2^n)
\* the formula of bmp280_convert and bmp280_convert_temp over the integers,
\* with whether each product is a value of int32_t
Reference(temp, p) ==
    LET m1 == Product((temp \div 8) - 2 * p.dig_t1, p.dig_t2)
        d  == (temp \div 16) - p.dig_t1
        m2 == Product(d, d)
        m3 == Product(Shifted(m2, 12), p.dig_t3)
        t_fine == Shifted(m1, 11) + Shifted(m3, 14)
    IN  [t_fine |-> t_fine,
         temperature |-> (t_fine * 5 + 128) \div 256,
         fits |-> FitsInt32(m1) /\ FitsInt32(m2) /\ FitsInt32(m3)]

\* C34: for every raw temperature and calibration the products of
\* bmp280_convert are values of int32_t, and t_fine and the temperature are
\* those of the formula over the integers.
C34_NoOverflowInFineTemperature ==
    m_iter.read =>
        LET r == Reference(raw.temperature, params)
        IN  /\ r.fits
            /\ reading.t_fine = r.t_fine
            /\ reading.temperature = r.temperature


\* ------------------------------------------------- HTTP client properties
\* C35: main is past the wait loop of the async pair only when neither of the
\* two asynchronous requests is still in flight.
PastAsyncWait == c_pc \notin {"sync1", "sync1w", "sync2", "sync2w", "async", "asyncw"}
C35_AsyncPairBothComplete ==
    PastAsyncWait => c_fly[3].s # "flying" /\ c_fly[4].s # "flying"

\* C36: "Test passed" is reported only if each of the six requests was
\* accepted with return code 0 and reported result 0.
C36_PassedMeansAllSucceeded ==
    c_pc = "passed" => \A r \in Requests : c_fly[r].s = "done" /\ c_fly[r].code = 0


\* C37: a socket that sync_time_with_ntp created is removed exactly once by
\* the time the function has returned, never twice, and nothing is sent on
\* it after udp_remove.
C37_NtpSocketLifetime ==
    /\ ntp.removes # "again"
    /\ (ntp.pc = "returned" /\ ntp.pcb # "none" => ntp.removes = "once")
    /\ ~ntp.stale


\* C38: rc522_to_card reads the interrupt register at most 2000 times, a call
\* whose polls ran out has status 2, and the bytes it stores into back_data
\* fit the buffer of its caller.
C38_TransceiveWithinBuffer ==
    /\ card.polls <= PollLimit
    /\ (card.pc = "back" /\ card.timedOut => card.status = 2 /\ card.stored = 0)
    /\ card.stored <= card.cap
====
